---- MODULE Spec2Model ----
(***************************************************************************)
(* A model of the Oracle Lakebridge extractor: the DDL cleaner             *)
(* (utils/ddl_cleaner.py with config.DDL_CLEANUP_PATTERNS), the Inventory  *)
(* (utils/inventory.py) and the extraction orchestrator                    *)
(* (oracle_lakebridge_extractor.py).                                       *)
(*                                                                         *)
(* Text is a sequence of one-character strings.  A Python value that may   *)
(* be None is a record [some, v].  A Python dict is a function whose       *)
(* DOMAIN is the set of keys present.                                      *)
(*                                                                         *)
(* Spec is a run of LakebridgeExtractor.extract_all against a metadata     *)
(* source and an output sink that may fail.  SpecInv is a sequence of      *)
(* calls of the InventoryWriter's methods.  SpecDdl is a call of one of    *)
(* the cleaner's functions.                                                *)
(***************************************************************************)
EXTENDS Integers, Sequences, FiniteSets, TLC

\* ------------------------------------------------------------------------
\* Python values

NoneV == [some |-> FALSE, v |-> <<>>]

Some(x) == [some |-> TRUE, v |-> x]

\* bool(x) of an Optional[str]: None and "" are falsy
Truthy(o) == o.some /\ o.v # <<>>

EmptyDict == [k \in {} |-> 0]

DictGet(d, k) == IF k \in DOMAIN d THEN d[k] ELSE 0

DictPut(d, k, x) == [y \in (DOMAIN d) \cup {k} |-> IF y = k THEN x ELSE d[y]]

\* ------------------------------------------------------------------------
\* Characters and the character classes of the regular expressions

LowerLetters == <<"a", "b", "c", "d", "e", "f", "g", "h", "i", "j", "k", "l", "m",
                  "n", "o", "p", "q", "r", "s", "t", "u", "v", "w", "x", "y", "z">>

UpperLetters == <<"A", "B", "C", "D", "E", "F", "G", "H", "I", "J", "K", "L", "M",
                  "N", "O", "P", "Q", "R", "S", "T", "U", "V", "W", "X", "Y", "Z">>

Range(s) == {s[i] : i \in DOMAIN s}

\* str.upper() / re.IGNORECASE folding of one character
UpperChar(c) ==
    IF c \in Range(LowerLetters)
    THEN UpperLetters[CHOOSE i \in DOMAIN LowerLetters : LowerLetters[i] = c]
    ELSE c

\* str.lower() of one character
LowerChar(c) ==
    IF c \in Range(UpperLetters)
    THEN LowerLetters[CHOOSE i \in DOMAIN UpperLetters : UpperLetters[i] = c]
    ELSE c

Letters == Range(LowerLetters) \cup Range(UpperLetters)

Digits == {"0", "1", "2", "3", "4", "5", "6", "7", "8", "9"}

\* a character class: the characters of set, or (neg) every character not in set
Class(S) == [neg |-> FALSE, set |-> S]

NotClass(S) == [neg |-> TRUE, set |-> S]

InClass(c, cls) == (c \in cls.set) # cls.neg

\* \s
WhiteSpace == {" ", "\t", "\n", "\r"}

\* \w
WordChars == Letters \cup Digits \cup {"_"}

\* ------------------------------------------------------------------------
\* Regular expressions: a pattern is a sequence of elements, matched greedily
\* from left to right (none of the patterns of the cleaner needs backtracking
\* beyond what MatchBlankLines does for \n\s*\n\s*\n).

Lit(s) == [k |-> "lit", s |-> s]

Plus(cls) == [k |-> "plus", cls |-> cls]

Star(cls) == [k |-> "star", cls |-> cls]

One(cls) == [k |-> "one", cls |-> cls]

Opt(p) == [k |-> "opt", p |-> p]

Alt(p, q) == [k |-> "alt", p |-> p, q |-> q]

\* the whole of r'\n\s*\n\s*\n'
BlankLines == [k |-> "blank"]

\* the index after the longest run of characters of cls that starts at i
RECURSIVE RunEnd(_, _, _)
RunEnd(cls, t, i) ==
    IF i <= Len(t) /\ InClass(t[i], cls) THEN RunEnd(cls, t, i + 1) ELSE i

\* a literal at i, letters compared case-insensitively when ic
LitAt(s, t, i, ic) ==
    /\ i + Len(s) - 1 <= Len(t)
    /\ \A j \in 1..Len(s) :
          IF ic THEN UpperChar(t[i + j - 1]) = UpperChar(s[j])
                ELSE t[i + j - 1] = s[j]

\* the number of "\n" in t[i..j-1]
RECURSIVE CountNewlines(_, _, _)
CountNewlines(t, i, j) ==
    IF i >= j THEN 0
    ELSE (IF t[i] = "\n" THEN 1 ELSE 0) + CountNewlines(t, i + 1, j)

\* the index after the last "\n" of t[i..j-1] (which holds one)
RECURSIVE AfterLastNewline(_, _, _)
AfterLastNewline(t, i, j) ==
    IF t[j - 1] = "\n" THEN j ELSE AfterLastNewline(t, i, j - 1)

\* r'\n\s*\n\s*\n' at i, the whitespace run from i ending before index e: a
\* newline that starts a run holding at least three newlines; the greedy \s*
\* carry the match to the run's last newline
BlankLinesIn(t, i, e) ==
    IF i <= Len(t) /\ t[i] = "\n" /\ CountNewlines(t, i, e) >= 3
    THEN AfterLastNewline(t, i, e)
    ELSE -1

MatchBlankLines(t, i) == BlankLinesIn(t, i, RunEnd(Class(WhiteSpace), t, i))

\* j if the match reached at least m, else no match
AtLeast(j, m) == IF j >= m THEN j ELSE -1

\* j if it is a match, else d
OrElse(j, d) == IF j # -1 THEN j ELSE d

RECURSIVE MatchSeq(_, _, _, _, _)
RECURSIVE MatchElem(_, _, _, _)
RECURSIVE ThenMatch(_, _, _, _, _)

\* the index after the match of element e at i, or -1
MatchElem(e, t, i, ic) ==
    CASE e.k = "lit"   -> IF LitAt(e.s, t, i, ic) THEN i + Len(e.s) ELSE -1
      [] e.k = "plus"  -> AtLeast(RunEnd(e.cls, t, i), i + 1)
      [] e.k = "star"  -> RunEnd(e.cls, t, i)
      [] e.k = "one"   -> IF i <= Len(t) /\ InClass(t[i], e.cls) THEN i + 1 ELSE -1
      [] e.k = "opt"   -> OrElse(MatchSeq(e.p, 1, t, i, ic), i)
      [] e.k = "alt"   -> OrElse(MatchSeq(e.p, 1, t, i, ic), MatchSeq(e.q, 1, t, i, ic))
      [] e.k = "blank" -> MatchBlankLines(t, i)

\* the elements after n, from where element n matched up to (j)
ThenMatch(p, n, t, j, ic) == IF j = -1 THEN -1 ELSE MatchSeq(p, n + 1, t, j, ic)

\* the index after the match of elements n.. of pattern p at i, or -1
MatchSeq(p, n, t, i, ic) ==
    IF n > Len(p) THEN i ELSE ThenMatch(p, n, t, MatchElem(p[n], t, i, ic), ic)

Match(p, t, i, ic) == MatchSeq(p, 1, t, i, ic)

\* the leftmost match among the ends of the matches at i..Len(t) (ends[k] is
\* the index after the match at k, or -1): [k, j], or k = 0 when there is none
Leftmost(ends) ==
    IF \A k \in DOMAIN ends : ends[k] <= k THEN [k |-> 0, j |-> 0]
    ELSE LET k == CHOOSE x \in DOMAIN ends :
                      /\ ends[x] > x
                      /\ \A y \in DOMAIN ends : ends[y] > y => x <= y
         IN  [k |-> k, j |-> ends[k]]

RECURSIVE SubFrom(_, _, _, _, _)
RECURSIVE SubStep(_, _, _, _, _, _)

\* re.sub from i on, where m is the leftmost match at or after i: the text
\* before the match is kept, the match replaced, and the scan goes on after it
SubStep(p, repl, t, i, m, ic) ==
    IF m.k = 0 THEN SubSeq(t, i, Len(t))
    ELSE SubSeq(t, i, m.k - 1) \o repl \o SubFrom(p, repl, t, m.j, ic)

\* re.sub(p, repl, t) from i on: leftmost non-overlapping matches
SubFrom(p, repl, t, i, ic) ==
    IF i > Len(t) THEN <<>>
    ELSE SubStep(p, repl, t, i,
                 Leftmost([k \in i..Len(t) |-> Match(p, t, k, ic)]), ic)

ReSub(p, repl, t, ic) == SubFrom(p, repl, t, 1, ic)

\* ------------------------------------------------------------------------
\* config.DDL_CLEANUP_PATTERNS

S1 == Plus(Class(WhiteSpace))

D1 == Plus(Class(Digits))

\* r'\s+KW\s+\d+'
KwNum(kw) == <<S1, Lit(kw), S1, D1>>

\* r'\s+KW(\s+\d+)?'
KwOptNum(kw) == <<S1, Lit(kw), Opt(<<S1, D1>>)>>

\* r'\s+KW'
Kw(kw) == <<S1, Lit(kw)>>

DDL_CLEANUP_PATTERNS ==
    << KwNum(<<"P", "C", "T", "F", "R", "E", "E">>),
       KwNum(<<"P", "C", "T", "U", "S", "E", "D">>),
       KwNum(<<"I", "N", "I", "T", "R", "A", "N", "S">>),
       KwNum(<<"M", "A", "X", "T", "R", "A", "N", "S">>),
       KwOptNum(<<"C", "O", "M", "P", "R", "E", "S", "S">>),
       Kw(<<"N", "O", "C", "O", "M", "P", "R", "E", "S", "S">>),
       Kw(<<"L", "O", "G", "G", "I", "N", "G">>),
       Kw(<<"N", "O", "L", "O", "G", "G", "I", "N", "G">>),
       Kw(<<"C", "A", "C", "H", "E">>),
       Kw(<<"N", "O", "C", "A", "C", "H", "E">>),
       KwOptNum(<<"P", "A", "R", "A", "L", "L", "E", "L">>),
       Kw(<<"N", "O", "P", "A", "R", "A", "L", "L", "E", "L">>),
       Kw(<<"M", "O", "N", "I", "T", "O", "R", "I", "N", "G">>),
       Kw(<<"N", "O", "M", "O", "N", "I", "T", "O", "R", "I", "N", "G">>),
       <<S1, Lit(<<"S", "E", "G", "M", "E", "N", "T">>), S1, Lit(<<"C", "R", "E", "A", "T", "I", "O", "N">>), S1,
         Alt(<<Lit(<<"I", "M", "M", "E", "D", "I", "A", "T", "E">>)>>, <<Lit(<<"D", "E", "F", "E", "R", "R", "E", "D">>)>>)>>,
       <<S1, Lit(<<"F", "L", "A", "S", "H", "_", "C", "A", "C", "H", "E">>), S1, Plus(Class(WordChars))>>,
       <<S1, Lit(<<"C", "E", "L", "L", "_", "F", "L", "A", "S", "H", "_", "C", "A", "C", "H", "E">>), S1, Plus(Class(WordChars))>>,
       <<S1, Lit(<<"E", "N", "A", "B", "L", "E">>), S1, Lit(<<"R", "O", "W">>), S1, Lit(<<"M", "O", "V", "E", "M", "E", "N", "T">>)>>,
       <<S1, Lit(<<"D", "I", "S", "A", "B", "L", "E">>), S1, Lit(<<"R", "O", "W">>), S1, Lit(<<"M", "O", "V", "E", "M", "E", "N", "T">>)>> >>

\* ------------------------------------------------------------------------
\* utils/ddl_cleaner.py

\* "?[A-Za-z_][A-Za-z0-9_$#]*"?
QuotedName ==
    << Opt(<<Lit(<<"\"">>)>>),
       One(Class(Letters \cup {"_"})),
       Star(Class(Letters \cup Digits \cup {"_", "$", "#"})),
       Opt(<<Lit(<<"\"">>)>>) >>

\* r'\s+TABLESPACE\s+"?[A-Za-z_][A-Za-z0-9_$#]*"?'
TablespacePattern == <<S1, Lit(<<"T", "A", "B", "L", "E", "S", "P", "A", "C", "E">>), S1>> \o QuotedName

\* r'\s+USING\s+INDEX\s+TABLESPACE\s+"?[A-Za-z_][A-Za-z0-9_$#]*"?'
UsingIndexPattern ==
    <<S1, Lit(<<"U", "S", "I", "N", "G">>), S1, Lit(<<"I", "N", "D", "E", "X">>), S1, Lit(<<"T", "A", "B", "L", "E", "S", "P", "A", "C", "E">>), S1>> \o QuotedName

\* \([^)]*\)
ParenBlock == <<Lit(<<"(">>), Star(NotClass({")"})), Lit(<<")">>)>>

\* r'\s+STORAGE\s*\([^)]*\)'
StoragePattern == <<S1, Lit(<<"S", "T", "O", "R", "A", "G", "E">>), Star(Class(WhiteSpace))>> \o ParenBlock

\* r'\s+LOB\s*\([^)]*\)\s+STORE\s+AS\s+[^(]*\([^)]*\)'
LobPattern ==
    <<S1, Lit(<<"L", "O", "B">>), Star(Class(WhiteSpace))>> \o ParenBlock
    \o <<S1, Lit(<<"S", "T", "O", "R", "E">>), S1, Lit(<<"A", "S">>), S1, Star(NotClass({"("}))>> \o ParenBlock

\* r'[ \t]+'
HSpacePattern == <<Plus(Class({" ", "\t"}))>>

\* r' +\n'
TrailingSpacePattern == <<Plus(Class({" "})), Lit(<<"\n">>)>>

\* r'\(\s*\)'
EmptyParenPattern == <<Lit(<<"(">>), Star(Class(WhiteSpace)), Lit(<<")">>)>>

\* r'\n\s*\n\s*\n'
BlankLinesPattern == <<BlankLines>>

\* one re.sub call of clean_ddl: pattern, replacement, re.IGNORECASE
Step(p, repl, ic) == [p |-> p, repl |-> repl, ic |-> ic]

\* the re.sub calls of clean_ddl, in order: the loop over
\* DDL_CLEANUP_PATTERNS, the four clause removals, the whitespace passes and
\* the empty parentheses
CleanSteps ==
    [i \in DOMAIN DDL_CLEANUP_PATTERNS |-> Step(DDL_CLEANUP_PATTERNS[i], <<>>, TRUE)]
    \o << Step(TablespacePattern, <<>>, TRUE),
          Step(UsingIndexPattern, <<>>, TRUE),
          Step(StoragePattern, <<>>, TRUE),
          Step(LobPattern, <<>>, TRUE),
          Step(BlankLinesPattern, <<"\n", "\n">>, FALSE),
          Step(HSpacePattern, <<" ">>, FALSE),
          Step(TrailingSpacePattern, <<"\n">>, FALSE),
          Step(EmptyParenPattern, <<>>, FALSE) >>

\* the re.sub calls from the n-th on, applied in turn to t (no pattern
\* matches in the empty text)
RECURSIVE ApplySteps(_, _, _)
ApplySteps(steps, n, t) ==
    IF n > Len(steps) \/ t = <<>> THEN t
    ELSE ApplySteps(steps, n + 1, ReSub(steps[n].p, steps[n].repl, t, steps[n].ic))

\* str.strip()
RECURSIVE LStrip(_)
LStrip(t) == IF t # <<>> /\ Head(t) \in WhiteSpace THEN LStrip(Tail(t)) ELSE t

RECURSIVE RStrip(_)
RStrip(t) ==
    IF t # <<>> /\ t[Len(t)] \in WhiteSpace
    THEN RStrip(SubSeq(t, 1, Len(t) - 1)) ELSE t

Strip(t) == RStrip(LStrip(t))

\* the terminator appended without the test of endswith(';')
EnsureTerminator_always(t) == IF t # <<>> THEN Append(t, ";") ELSE t

\* the terminator enforcement at the end of clean_ddl
EnsureTerminator(t) ==
    IF t # <<>> /\ t[Len(t)] # ";" THEN Append(t, ";") ELSE t

\* clean_ddl(ddl), ddl an Optional text
clean_ddl(ddl) ==
    IF ~Truthy(ddl) THEN <<>>
    ELSE EnsureTerminator(Strip(ApplySteps(CleanSteps, 1, ddl.v)))

\* '\n'.join(parts)
RECURSIVE Join(_)
Join(parts) ==
    IF parts = <<>> THEN <<>>
    ELSE IF Len(parts) = 1 THEN parts[1]
    ELSE parts[1] \o <<"\n">> \o Join(Tail(parts))

PackageSpecMarker == <<"-", "-", " ", "P", "a", "c", "k", "a", "g", "e", " ", "S", "p", "e", "c", "i", "f", "i", "c", "a", "t", "i", "o", "n">>

PackageBodyMarker == <<"-", "-", " ", "P", "a", "c", "k", "a", "g", "e", " ", "B", "o", "d", "y">>

TypeBodyMarker == <<"-", "-", " ", "T", "y", "p", "e", " ", "B", "o", "d", "y">>

\* the separator appended before the body section: parts.append("\n")
SectionSeparator == <<"\n">>

\* the body section appended without the 'if body_ddl:' test
WithBody_unconditional(parts, marker, body_ddl) ==
    (IF parts # <<>> THEN Append(parts, SectionSeparator) ELSE parts)
    \o <<marker, clean_ddl(body_ddl)>>

\* 'if body_ddl:' of clean_package_ddl and clean_type_ddl: the separator (if
\* parts is not empty), the marker and the cleaned body are appended to parts
WithBody(parts, marker, body_ddl) ==
    IF Truthy(body_ddl)
    THEN (IF parts # <<>> THEN Append(parts, SectionSeparator) ELSE parts)
         \o <<marker, clean_ddl(body_ddl)>>
    ELSE parts

\* clean_package_ddl(spec_ddl, body_ddl), both Optional texts
clean_package_ddl(spec_ddl, body_ddl) ==
    Join(WithBody(IF Truthy(spec_ddl)
                  THEN <<PackageSpecMarker, clean_ddl(spec_ddl)>> ELSE <<>>,
                  PackageBodyMarker, body_ddl))

\* clean_type_ddl(type_ddl, body_ddl), both Optional texts
clean_type_ddl(type_ddl, body_ddl) ==
    Join(WithBody(IF Truthy(type_ddl) THEN <<clean_ddl(type_ddl)>> ELSE <<>>,
                  TypeBodyMarker, body_ddl))

\* ------------------------------------------------------------------------
\* utils/inventory.py: InventoryWriter

\* the per-schema entry add_schema creates (the detail and metrics fields,
\* which no counter depends on, are left out)
NewSchemaData ==
    [objects_extracted |-> EmptyDict,
     objects_failed    |-> EmptyDict,
     total_files       |-> 0,
     errors            |-> <<>>]

\* add_schema without its 'if schema not in self.schemas' test
add_schema_resetting(inv, schema) == DictPut(inv, schema, NewSchemaData)

\* InventoryWriter.add_schema
add_schema(inv, schema) ==
    IF schema \notin DOMAIN inv THEN DictPut(inv, schema, NewSchemaData) ELSE inv

\* if key not in d: d[key] = 0; d[key] += 1
Increment(d, key) == DictPut(d, key, DictGet(d, key) + 1)

\* the entry appended to a schema's error list
ErrorEntry(object_type, object_name, error) ==
    [object_type |-> object_type, object_name |-> object_name, error |-> error]

\* record_extraction with 'if success:' not followed by 'else:': the failure
\* counter is incremented on every call
record_extraction_without_else(inv, schema, object_type, object_name, success, error_message) ==
    LET inv1 == IF schema \notin DOMAIN inv THEN DictPut(inv, schema, NewSchemaData) ELSE inv
        schema_data == inv1[schema]
        counted == IF success
                   THEN [schema_data EXCEPT
                            !.objects_extracted = Increment(@, object_type),
                            !.total_files = @ + 1]
                   ELSE schema_data
    IN  [inv1 EXCEPT ![schema] =
            [counted EXCEPT
                !.objects_failed = Increment(@, object_type),
                !.errors = IF Truthy(error_message)
                           THEN Append(@, ErrorEntry(object_type, object_name,
                                                     error_message.v))
                           ELSE @]]

\* record_extraction assigning the error list (errors = [entry]) instead of
\* appending to it
record_extraction_replacing_errors(inv, schema, object_type, object_name, success, error_message) ==
    LET inv1 == add_schema(inv, schema)
        schema_data == inv1[schema]
    IN  [inv1 EXCEPT ![schema] =
            IF success
            THEN [schema_data EXCEPT
                    !.objects_extracted = Increment(@, object_type),
                    !.total_files = @ + 1]
            ELSE [schema_data EXCEPT
                    !.objects_failed = Increment(@, object_type),
                    !.errors = IF Truthy(error_message)
                               THEN <<ErrorEntry(object_type, object_name,
                                                 error_message.v)>>
                               ELSE @]]

\* record_extraction with 'total_files += 1' after the if/else instead of
\* inside the success branch: every attempt counts as a file
record_extraction_counting_attempts(inv, schema, object_type, object_name, success, error_message) ==
    LET inv1 == add_schema(inv, schema)
        schema_data == inv1[schema]
    IN  [inv1 EXCEPT ![schema] =
            IF success
            THEN [schema_data EXCEPT
                    !.objects_extracted = Increment(@, object_type),
                    !.total_files = @ + 1]
            ELSE [schema_data EXCEPT
                    !.objects_failed = Increment(@, object_type),
                    !.total_files = @ + 1,
                    !.errors = IF Truthy(error_message)
                               THEN Append(@, ErrorEntry(object_type, object_name,
                                                         error_message.v))
                               ELSE @]]

\* InventoryWriter.record_extraction; error_message is an Optional text
record_extraction(inv, schema, object_type, object_name, success, error_message) ==
    LET inv1 == add_schema(inv, schema)
        schema_data == inv1[schema]
    IN  [inv1 EXCEPT ![schema] =
            IF success
            THEN [schema_data EXCEPT
                    !.objects_extracted = Increment(@, object_type),
                    !.total_files = @ + 1]
            ELSE [schema_data EXCEPT
                    !.objects_failed = Increment(@, object_type),
                    !.errors = IF Truthy(error_message)
                               THEN Append(@, ErrorEntry(object_type, object_name,
                                                         error_message.v))
                               ELSE @]]

\* add_table_details, add_procedure_details, add_package_details and
\* add_source_metrics: each calls add_schema and stores its payload in a
\* detail field
add_details(inv, schema) == add_schema(inv, schema)

\* the sum of the values of a dict, as the for loops accumulate it
RECURSIVE SumValues(_)
SumValues(d) ==
    IF DOMAIN d = {} THEN 0
    ELSE LET k == CHOOSE x \in DOMAIN d : TRUE
         IN  d[k] + SumValues([y \in (DOMAIN d) \ {k} |-> d[y]])

\* generate_summary reading both counter dicts
generate_summary_counting_failed(inv) ==
    [total_schemas   |-> Cardinality(DOMAIN inv),
     total_objects   |-> SumValues([s \in DOMAIN inv |->
                                       SumValues(inv[s].objects_extracted)
                                       + SumValues(inv[s].objects_failed)]),
     objects_by_type |->
         [t \in UNION {DOMAIN inv[s].objects_extracted \cup DOMAIN inv[s].objects_failed :
                          s \in DOMAIN inv} |->
             SumValues([s \in DOMAIN inv |->
                           DictGet(inv[s].objects_extracted, t)
                           + DictGet(inv[s].objects_failed, t)])]]

\* InventoryWriter.generate_summary
generate_summary(inv) ==
    [total_schemas   |-> Cardinality(DOMAIN inv),
     total_objects   |-> SumValues([s \in DOMAIN inv |->
                                       SumValues(inv[s].objects_extracted)]),
     objects_by_type |->
         [t \in UNION {DOMAIN inv[s].objects_extracted : s \in DOMAIN inv} |->
             SumValues([s \in DOMAIN inv |-> DictGet(inv[s].objects_extracted, t)])]]

\* the document leaving out the schemas nothing was extracted from
InventoryDocument_only_extracted(inv) ==
    LET kept == [s \in {x \in DOMAIN inv : inv[x].total_files > 0} |-> inv[s]]
    IN  [schemas |-> kept, summary |-> generate_summary(kept)]

\* the document write_inventory serializes (date and database name left out)
InventoryDocument(inv) == [schemas |-> inv, summary |-> generate_summary(inv)]

\* ------------------------------------------------------------------------
\* config.OBJECT_TYPES and OracleQueries.QUERY_MAP

SqlExt == <<".", "s", "q", "l">>

OBJECT_TYPES ==
    << [type |-> "TABLE",             folder |-> "tables",             ext |-> SqlExt],
       [type |-> "VIEW",              folder |-> "views",              ext |-> SqlExt],
       [type |-> "MATERIALIZED_VIEW", folder |-> "materialized_views", ext |-> SqlExt],
       [type |-> "PROCEDURE",         folder |-> "procedures",         ext |-> SqlExt],
       [type |-> "FUNCTION",          folder |-> "functions",          ext |-> SqlExt],
       [type |-> "PACKAGE",           folder |-> "packages",           ext |-> SqlExt],
       [type |-> "TRIGGER",           folder |-> "triggers",           ext |-> SqlExt],
       [type |-> "SEQUENCE",          folder |-> "sequences",          ext |-> SqlExt],
       [type |-> "SYNONYM",           folder |-> "synonyms",           ext |-> SqlExt],
       [type |-> "TYPE",              folder |-> "types",              ext |-> SqlExt],
       [type |-> "INDEX",             folder |-> "indexes",            ext |-> SqlExt],
       [type |-> "DATABASE LINK",     folder |-> "db_links",           ext |-> SqlExt] >>

\* the query map without the entry of the type registered last
QUERY_MAP_without_database_link ==
    [t \in {"TABLE", "VIEW", "PROCEDURE", "FUNCTION", "PACKAGE", "INDEX", "SEQUENCE",
            "TRIGGER", "TYPE", "MATERIALIZED_VIEW", "SYNONYM"} |->
        CASE t = "TABLE"             -> "TABLES"
          [] t = "VIEW"              -> "VIEWS"
          [] t = "PROCEDURE"         -> "PROCEDURES"
          [] t = "FUNCTION"          -> "FUNCTIONS"
          [] t = "PACKAGE"           -> "PACKAGES"
          [] t = "INDEX"             -> "INDEXES"
          [] t = "SEQUENCE"          -> "SEQUENCES"
          [] t = "TRIGGER"           -> "TRIGGERS"
          [] t = "TYPE"              -> "TYPES"
          [] t = "MATERIALIZED_VIEW" -> "MATERIALIZED_VIEWS"
          [] t = "SYNONYM"           -> "SYNONYMS"]

QUERY_MAP ==
    [t \in {"TABLE", "VIEW", "PROCEDURE", "FUNCTION", "PACKAGE", "INDEX", "SEQUENCE",
            "TRIGGER", "TYPE", "MATERIALIZED_VIEW", "SYNONYM", "DATABASE LINK"} |->
        CASE t = "TABLE"             -> "TABLES"
          [] t = "VIEW"              -> "VIEWS"
          [] t = "PROCEDURE"         -> "PROCEDURES"
          [] t = "FUNCTION"          -> "FUNCTIONS"
          [] t = "PACKAGE"           -> "PACKAGES"
          [] t = "INDEX"             -> "INDEXES"
          [] t = "SEQUENCE"          -> "SEQUENCES"
          [] t = "TRIGGER"           -> "TRIGGERS"
          [] t = "TYPE"              -> "TYPES"
          [] t = "MATERIALIZED_VIEW" -> "MATERIALIZED_VIEWS"
          [] t = "SYNONYM"           -> "SYNONYMS"
          [] t = "DATABASE LINK"     -> "DATABASE_LINKS"]

\* OracleQueries.get_query: the query, or a raised KeyError
get_query(object_type) ==
    IF object_type \notin DOMAIN QUERY_MAP
    THEN [raised |-> TRUE, query |-> ""]
    ELSE [raised |-> FALSE, query |-> QUERY_MAP[object_type]]

\* ------------------------------------------------------------------------
\* oracle_lakebridge_extractor.py: the functions that talk to the cursor.
\* What the cursor does is a fetch outcome [k, text, n]:
\*   k = "raise": execute raised an exception whose str() is text
\*   k = "norow": fetchone() returned None
\*   k = "null":  the row holds None
\*   k = "str":   the row holds the string text
\*   k = "clob":  the row holds a LOB object whose read() returns text
\*   k = "count": the row holds the number n

Raise(text) == [k |-> "raise", text |-> text, n |-> 0]

NoRow == [k |-> "norow", text |-> <<>>, n |-> 0]

NullRow == [k |-> "null", text |-> <<>>, n |-> 0]

StrRow(text) == [k |-> "str", text |-> text, n |-> 0]

ClobRow(text) == [k |-> "clob", text |-> text, n |-> 0]

CountRow(n) == [k |-> "count", text |-> <<>>, n |-> n]

\* 'code' in str(e), the text of an error being a sequence of words
Contains(text, code) == \E i \in DOMAIN text : text[i] = code

\* str.upper() and str.lower() of a name
Upper(name) == [i \in DOMAIN name |-> UpperChar(name[i])]

Lower(name) == [i \in DOMAIN name |-> LowerChar(name[i])]

\* the result of a function that may raise: [raised, exc, ret]
Returned(ret) == [raised |-> FALSE, exc |-> <<>>, ret |-> ret]

Raised(exc) == [raised |-> TRUE, exc |-> exc, ret |-> NoneV]

\* 'if result and result[0]: ... read() / str()' of the three fetch functions:
\* the text returned, or None when the branch is not taken
ReadPayload(out) ==
    CASE out.k = "clob"                   -> Some(out.text)
      [] out.k = "str" /\ out.text # <<>> -> Some(out.text)
      [] OTHER                            -> NoneV

\* the mapping without its two special cases
MetadataType_identity(object_type) == object_type

\* the identifier extract_ddl sends to DBMS_METADATA
MetadataType(object_type) ==
    IF object_type = "MATERIALIZED_VIEW" THEN "MATERIALIZED_VIEW"
    ELSE IF object_type = "DATABASE LINK" THEN "DB_LINK"
    ELSE object_type

\* the except clause of extract_ddl: the not-found signal
IsNotFound(exc) == Contains(exc, "ORA-31603") \/ Contains(exc, "ORA-00942")

\* extract_ddl, given what the cursor did
extract_ddl(out) ==
    IF out.k = "raise"
    THEN (IF IsNotFound(out.text) THEN Returned(NoneV) ELSE Raised(out.text))
    ELSE Returned(ReadPayload(out))

\* the test of the two body functions without 'or result[0] == 0'
BodyMissing_only_no_row(out) == out.k = "norow"

\* 'if not result or result[0] == 0: return None' of the two body functions
BodyMissing(out) == out.k = "norow" \/ (out.k = "count" /\ out.n = 0)

\* the body fetch of extract_package_body and extract_type_body, given what
\* the cursor did: every exception is swallowed
FetchBody(out) == IF out.k = "raise" THEN NoneV ELSE ReadPayload(out)

\* the reason recorded when extract_ddl returns None
NotFoundReason == <<"Object not found or no privileges">>

\* filepath = output_dir / schema.lower() / folder / (obj_name.lower() + ext)
FilePath(schema, obj_config, obj_name) ==
    <<Lower(schema), obj_config.folder, Lower(obj_name) \o obj_config.ext>>

\* the cleaned text _extract_and_save_object writes for an object
CleanFor(obj_type, ddl, body_ddl) ==
    IF obj_type = "PACKAGE" THEN clean_package_ddl(ddl, body_ddl)
    ELSE IF obj_type = "TYPE" THEN clean_type_ddl(ddl, body_ddl)
    ELSE clean_ddl(ddl)

\* ------------------------------------------------------------------------
\* Bounds and the inputs of the model

\* the failures the environment (metadata source, output sink) injects into
\* one run, at most
MaxFaults == 2

\* the calls of one Inventory scenario, at most
MaxCalls == 3

\* the schema lists given to LakebridgeExtractor(schemas=...)
RawSchemaConfigs ==
    { << <<"h", "r">> >>,
      << <<"h", "r">>, <<"S">> >>,
      << <<"h", "r">>, <<"H", "R">> >> }

\* the types the modelled databases hold objects of, and whose listing may fail
PopulatedTypes == {"TABLE", "PACKAGE", "TYPE"}

\* one listing of a database: the names of the objects of a type in a schema
Entry(schema, type, names) == [schema |-> schema, type |-> type, names |-> names]

\* the databases a run may meet: each is the set of its non-empty listings
Databases ==
    { {},
      {Entry(<<"H", "R">>, "TABLE", << <<"E">>, <<"e">> >>)},
      {Entry(<<"H", "R">>, "PACKAGE", << <<"E">>, <<"e">> >>)},
      {Entry(<<"H", "R">>, "TABLE", << <<"E">> >>),
       Entry(<<"H", "R">>, "TYPE", << <<"E">> >>)},
      {Entry(<<"H", "R">>, "TYPE", << <<"e">> >>),
       Entry(<<"S">>, "PACKAGE", << <<"E">> >>)} }

\* cursor.fetchall() of the listing query of a type in a schema
Rows(db, schema, type) ==
    IF \E e \in db : e.schema = schema /\ e.type = type
    THEN (CHOOSE e \in db : e.schema = schema /\ e.type = type).names
    ELSE <<>>

\* the raw DDL the metadata source holds for a specification and for a body
RawSpec == <<"a">>

RawBody == <<"b">>

\* the texts str(e) of the exceptions the cursor raises (the last one is the
\* text of an exception raised without arguments)
ErrorTexts == { <<"ORA-31603">>, <<"ORA-00942">>, <<"ORA-01031">>, <<>> }

\* the text of the OSError the output sink raises
SinkErrorText == <<"Errno 28">>

\* what the cursor may answer to a DDL fetch of raw text
DdlOutcomes(raw) ==
    {Raise(e) : e \in ErrorTexts}
    \cup {NoRow, NullRow, StrRow(<<>>), StrRow(raw), ClobRow(<<>>), ClobRow(raw)}

\* what the cursor may answer to a body-existence query (SELECT COUNT(*):
\* a count, or no row from a cursor that has none, or an exception)
ExistsOutcomes == {Raise(e) : e \in ErrorTexts} \cup {NoRow, CountRow(0), CountRow(1)}

\* an answer is a fault unless it is the expected one
IsFault(out, raw) ==
    ~ \/ out.k \in {"str", "clob"} /\ out.text = raw
      \/ out.k = "count"
      \/ out.k = "norow" /\ raw = <<>>

\* ------------------------------------------------------------------------
\* State

VARIABLES
    schemas,     \* LakebridgeExtractor.schemas
    database,    \* the metadata source: the objects it lists
    pc,          \* where the run (or the scenario) stands
    si,          \* extract_all: index of the schema being extracted
    ti,          \* _extract_schema: index into OBJECT_TYPES
    objects,     \* _extract_schema: the rows of the current type
    oi,          \* _extract_schema: index into objects
    cur,         \* _extract_and_save_object: request, answer, ddl, body_ddl
    inventory,   \* InventoryWriter.schemas
    files,       \* the output sink: path -> text
    manifests,   \* the inventory documents written
    listings,    \* history: the answers to the listings
    attempts,    \* history: the calls of _extract_and_save_object
    faults,      \* the failures injected so far
    log,         \* Inventory scenario: the calls made
    summary,     \* Inventory scenario: the last generate_summary result
    ddlcase      \* cleaner scenario: function, arguments, result

vars == <<schemas, database, pc, si, ti, objects, oi, cur, inventory, files, manifests,
          listings, attempts, faults, log, summary, ddlcase>>

orchVars == <<schemas, database, si, ti, objects, oi, cur, files, manifests, listings,
              attempts, faults>>

NoRequest == [op |-> "", type |-> "", name |-> <<>>]

Request(op, type, name) == [op |-> op, type |-> type, name |-> name]

IdleCur == [req |-> NoRequest, out |-> NoRow, ddl |-> NoneV, body |-> NoneV]

IdleDdl == [fn |-> "", spec |-> NoneV, body |-> NoneV, out |-> <<>>]

NoSummary == [total_schemas |-> 0, total_objects |-> 0, objects_by_type |-> EmptyDict]

CurSchema == schemas[si]

\* the loop over the types taking them in the alphabetical order of their
\* names (sorted(OBJECT_TYPES.items())) instead of the registration order
CurConfig_sorted == OBJECT_TYPES[<<12, 5, 11, 3, 6, 4, 8, 9, 1, 7, 10, 2>>[ti]]

CurConfig == OBJECT_TYPES[ti]

CurType == CurConfig.type

CurName == objects[oi]

\* self.schemas = [s.upper() for s in schemas]
UpperAll(config) == [i \in DOMAIN config |-> Upper(config[i])]

\* the state after LakebridgeExtractor.__init__
Init ==
    /\ schemas \in {UpperAll(c) : c \in RawSchemaConfigs}
    /\ database \in Databases
    /\ pc = "mkdirs"
    /\ si = 1
    /\ ti = 1
    /\ objects = <<>>
    /\ oi = 0
    /\ cur = IdleCur
    /\ inventory = EmptyDict
    /\ files = EmptyDict
    /\ manifests = <<>>
    /\ listings = <<>>
    /\ attempts = <<>>
    /\ faults = 0
    /\ log = <<>>
    /\ summary = NoSummary
    /\ ddlcase = IdleDdl

\* ------------------------------------------------------------------------
\* Control flow of _extract_schema and extract_all: a position is
\* [pc, si, ti, oi, objects]

Position(p, s, t, o, objs) == [pc |-> p, si |-> s, ti |-> t, oi |-> o, objects |-> objs]

\* the loop 'for obj_type, obj_config in OBJECT_TYPES.items()' moves on
NextType(s, t) ==
    IF t < Len(OBJECT_TYPES)
    THEN Position("list", s, t + 1, 0, <<>>)
    ELSE Position("details", s, t, 0, <<>>)

\* the loop 'for owner, obj_name in objects' starting at the second object
AfterListing_skipping_first(raised, rows, s, t) ==
    IF ~raised /\ Len(rows) > 1
    THEN Position("fetch", s, t, 2, rows)
    ELSE NextType(s, t)

\* where _extract_schema stands after get_schema_objects returned rows, or
\* raised (both except clauses only log)
AfterListing(raised, rows, s, t) ==
    IF ~raised /\ rows # <<>>
    THEN Position("fetch", s, t, 1, rows)
    ELSE NextType(s, t)

\* the loop over the objects of a type breaking at the first failure
AfterObject_breaking_on_failure(ok, s, t, o, objs) ==
    IF ok /\ o < Len(objs)
    THEN Position("fetch", s, t, o + 1, objs)
    ELSE NextType(s, t)

\* where _extract_schema stands after _extract_and_save_object returned ok
\* (the loop 'for owner, obj_name in objects' discards the value)
AfterObject(ok, s, t, o, objs) ==
    IF o < Len(objs)
    THEN Position("fetch", s, t, o + 1, objs)
    ELSE NextType(s, t)

\* extract_all leaving the loop over the schemas after the first schema
AfterSchema_finishing_early(s, n) == Position("inventory", s, 1, 0, <<>>)

\* where extract_all stands after _extract_schema returned
AfterSchema(s, n) ==
    IF s < n
    THEN Position("schema", s + 1, 1, 0, <<>>)
    ELSE Position("inventory", s, 1, 0, <<>>)

Goto(p) ==
    /\ pc' = p.pc
    /\ si' = p.si
    /\ ti' = p.ti
    /\ oi' = p.oi
    /\ objects' = p.objects

Stay(p) ==
    /\ pc' = p
    /\ UNCHANGED <<si, ti, oi, objects>>

\* ------------------------------------------------------------------------
\* The extraction run: LakebridgeExtractor.extract_all

Done == [k |-> "ok", text |-> <<>>, n |-> 0]

Inject(fault) ==
    /\ fault => faults < MaxFaults
    /\ faults' = IF fault THEN faults + 1 ELSE faults

\* _create_directory_structure: the mkdir calls succeed, or one raises
CreateDirectoryStructure ==
    /\ pc = "mkdirs"
    /\ \E ok \in BOOLEAN :
          /\ Inject(~ok)
          /\ Stay(IF ok THEN "connect" ELSE "raised")
    /\ UNCHANGED <<schemas, database, cur, inventory, files, manifests, listings, attempts,
                   log, summary, ddlcase>>

\* 'with OracleConnection(self.config) as conn', conn.cursor() and
\* setup_transform_params (which swallows its errors)
Connect ==
    /\ pc = "connect"
    /\ \E ok \in BOOLEAN :
          /\ Inject(~ok)
          /\ Stay(IF ok THEN "schema" ELSE "raised")
    /\ UNCHANGED <<schemas, database, cur, inventory, files, manifests, listings, attempts,
                   log, summary, ddlcase>>

\* _extract_schema begins: self.inventory.add_schema(schema)
BeginSchema ==
    /\ pc = "schema"
    /\ inventory' = add_schema(inventory, CurSchema)
    /\ Stay("list")
    /\ UNCHANGED <<schemas, database, cur, files, manifests, listings, attempts, faults,
                   log, summary, ddlcase>>

Listing(raised, rows) ==
    [si |-> si, schema |-> CurSchema, type |-> CurType, raised |-> raised, rows |-> rows]

\* get_schema_objects for the current type: get_query, then the cursor
\* answers with rows or raises
ListObjects ==
    /\ pc = "list"
    /\ IF get_query(CurType).raised
       THEN /\ listings' = Append(listings, Listing(TRUE, <<>>))
            /\ Goto(AfterListing(TRUE, <<>>, si, ti))
            /\ UNCHANGED faults
       ELSE \E raised \in BOOLEAN :
               LET rows == IF raised THEN <<>> ELSE Rows(database, CurSchema, CurType)
               IN  /\ raised => CurType \in PopulatedTypes
                   /\ Inject(raised)
                   /\ listings' = Append(listings, Listing(raised, rows))
                   /\ Goto(AfterListing(raised, rows, si, ti))
    /\ UNCHANGED <<schemas, database, cur, inventory, files, manifests, attempts,
                   log, summary, ddlcase>>

Attempt == [si |-> si, schema |-> CurSchema, type |-> CurType, name |-> CurName]

\* _extract_and_save_object begins: extract_ddl issues GET_DDL and the cursor
\* answers
FetchDdl ==
    /\ pc = "fetch"
    /\ \E out \in DdlOutcomes(RawSpec) :
          /\ Inject(IsFault(out, RawSpec))
          /\ cur' = [IdleCur EXCEPT
                        !.req = Request("GET_DDL", MetadataType(CurType), CurName),
                        !.out = out]
    /\ attempts' = Append(attempts, Attempt)
    /\ Stay("fetched")
    /\ UNCHANGED <<schemas, database, inventory, files, manifests, listings, log, summary, ddlcase>>

\* _extract_and_save_object returns ok after self.inventory.record_extraction
RecordAndReturn(ok, error_message) ==
    /\ inventory' = record_extraction(inventory, CurSchema, CurType, CurName,
                                      ok, error_message)
    /\ cur' = IdleCur
    /\ Goto(AfterObject(ok, si, ti, oi, objects))

\* the type has a body to look for
HasBody(obj_type) == obj_type \in {"PACKAGE", "TYPE"}

\* _extract_and_save_object after extract_ddl: 'if ddl is None', the except
\* clause, or on to the body / the cleaner
AfterFetch ==
    /\ pc = "fetched"
    /\ LET r == extract_ddl(cur.out)
       IN  IF r.raised
           THEN RecordAndReturn(FALSE, Some(r.exc))
           ELSE IF ~r.ret.some
           THEN RecordAndReturn(FALSE, Some(NotFoundReason))
           ELSE /\ cur' = [cur EXCEPT !.ddl = r.ret]
                /\ Stay(IF HasBody(CurType) THEN "exists" ELSE "write")
                /\ UNCHANGED inventory
    /\ UNCHANGED <<schemas, database, files, manifests, listings, attempts, faults,
                   log, summary, ddlcase>>

BodyKind(obj_type) == IF obj_type = "PACKAGE" THEN "PACKAGE_BODY" ELSE "TYPE_BODY"

\* extract_package_body / extract_type_body: the existence query is issued
\* and the cursor answers
BodyExists ==
    /\ pc = "exists"
    /\ \E out \in ExistsOutcomes :
          /\ Inject(out.k = "raise")
          /\ cur' = [cur EXCEPT
                        !.req = Request("BODY_EXISTS", BodyKind(CurType), CurName),
                        !.out = out]
    /\ Stay("checked")
    /\ UNCHANGED <<schemas, database, inventory, files, manifests, listings, attempts,
                   log, summary, ddlcase>>

\* after the existence query: an exception reaches the except clause of
\* _extract_and_save_object; no body returns None; else the body is fetched
AfterExists ==
    /\ pc = "checked"
    /\ IF cur.out.k = "raise"
       THEN RecordAndReturn(FALSE, Some(cur.out.text))
       ELSE IF BodyMissing(cur.out)
       THEN /\ cur' = [cur EXCEPT !.body = NoneV]
            /\ Stay("write")
            /\ UNCHANGED inventory
       ELSE /\ Stay("body")
            /\ UNCHANGED <<cur, inventory>>
    /\ UNCHANGED <<schemas, database, files, manifests, listings, attempts, faults,
                   log, summary, ddlcase>>

\* the body's GET_DDL is issued and the cursor answers
BodyFetch ==
    /\ pc = "body"
    /\ \E out \in DdlOutcomes(RawBody) :
          /\ Inject(IsFault(out, RawBody))
          /\ cur' = [cur EXCEPT
                        !.req = Request("GET_DDL", BodyKind(CurType), CurName),
                        !.out = out]
    /\ Stay("bodied")
    /\ UNCHANGED <<schemas, database, inventory, files, manifests, listings, attempts,
                   log, summary, ddlcase>>

\* extract_package_body / extract_type_body without their try/except around
\* the body fetch: the exception reaches _extract_and_save_object
AfterBody_propagating ==
    /\ pc = "bodied"
    /\ IF cur.out.k = "raise"
       THEN RecordAndReturn(FALSE, Some(cur.out.text))
       ELSE /\ cur' = [cur EXCEPT !.body = FetchBody(cur.out)]
            /\ Stay("write")
            /\ UNCHANGED inventory
    /\ UNCHANGED <<schemas, database, files, manifests, listings, attempts, faults,
                   log, summary, ddlcase>>

\* extract_package_body / extract_type_body return the body or None
AfterBody ==
    /\ pc = "bodied"
    /\ cur' = [cur EXCEPT !.body = FetchBody(cur.out)]
    /\ Stay("write")
    /\ UNCHANGED <<schemas, database, inventory, files, manifests, listings, attempts, faults,
                   log, summary, ddlcase>>

\* the DDL is cleaned and written: open() raises, or the file is created and
\* write() raises, or the text is written
WriteFile ==
    /\ pc = "write"
    /\ \E w \in {"ok", "open_error", "write_error"} :
          LET path == FilePath(CurSchema, CurConfig, CurName)
              text == CleanFor(CurType, cur.ddl, cur.body)
          IN  /\ Inject(w # "ok")
              /\ files' = CASE w = "ok"          -> DictPut(files, path, text)
                            [] w = "write_error" -> DictPut(files, path, <<>>)
                            [] OTHER             -> files
              /\ cur' = [cur EXCEPT
                            !.req = Request("WRITE", CurConfig.folder, Lower(CurName)),
                            !.out = IF w = "ok" THEN Done ELSE Raise(SinkErrorText)]
    /\ Stay("written")
    /\ UNCHANGED <<schemas, database, inventory, manifests, listings, attempts,
                   log, summary, ddlcase>>

\* after the write: record the success, or the except clause
AfterWrite ==
    /\ pc = "written"
    /\ IF cur.out.k = "raise"
       THEN RecordAndReturn(FALSE, Some(cur.out.text))
       ELSE RecordAndReturn(TRUE, NoneV)
    /\ UNCHANGED <<schemas, database, files, manifests, listings, attempts, faults,
                   log, summary, ddlcase>>

\* _extract_schema ends: the four detail collections, each of which calls
\* add_schema (a failure of a detail query is logged and swallowed)
CollectDetails ==
    /\ pc = "details"
    /\ inventory' = add_details(add_details(add_details(add_details(
                        inventory, CurSchema), CurSchema), CurSchema), CurSchema)
    /\ Goto(AfterSchema(si, Len(schemas)))
    /\ UNCHANGED <<schemas, database, cur, files, manifests, listings, attempts, faults,
                   log, summary, ddlcase>>

\* self.inventory.write_inventory(): the document is written, or open raises
WriteInventory ==
    /\ pc = "inventory"
    /\ \E ok \in BOOLEAN :
          /\ Inject(~ok)
          /\ manifests' = IF ok THEN Append(manifests, InventoryDocument(inventory))
                                ELSE manifests
          /\ Stay(IF ok THEN "done" ELSE "raised")
    /\ UNCHANGED <<schemas, database, cur, inventory, files, listings, attempts,
                   log, summary, ddlcase>>

Next ==
    \/ CreateDirectoryStructure
    \/ Connect
    \/ BeginSchema
    \/ ListObjects
    \/ FetchDdl
    \/ AfterFetch
    \/ BodyExists
    \/ AfterExists
    \/ BodyFetch
    \/ AfterBody
    \/ WriteFile
    \/ AfterWrite
    \/ CollectDetails
    \/ WriteInventory

Spec == Init /\ [][Next]_vars

\* ------------------------------------------------------------------------
\* The Inventory scenario: a caller drives an InventoryWriter

\* the arguments the caller passes
ApiSchemas == { <<"H", "R">>, <<"S">> }

ApiTypes == {"TABLE", "PACKAGE"}

ApiNames == { <<"E">> }

\* error_message: the default None, an empty string, a text
ApiMessages == {NoneV, Some(<<>>), Some(<<"ORA-01031">>)}

\* one call, as the log keeps it
Call(op, schema, type, name, success, msg) ==
    [op |-> op, schema |-> schema, type |-> type, name |-> name,
     success |-> success, msg |-> msg]

\* the state after InventoryWriter.__init__
InitInv ==
    /\ schemas = <<>>
    /\ database = {}
    /\ pc = "api"
    /\ si = 1
    /\ ti = 1
    /\ objects = <<>>
    /\ oi = 0
    /\ cur = IdleCur
    /\ inventory = EmptyDict
    /\ files = EmptyDict
    /\ manifests = <<>>
    /\ listings = <<>>
    /\ attempts = <<>>
    /\ faults = 0
    /\ log = <<>>
    /\ summary = NoSummary
    /\ ddlcase = IdleDdl

CallAddSchema ==
    /\ pc = "api"
    /\ Len(log) < MaxCalls
    /\ \E s \in ApiSchemas :
          /\ inventory' = add_schema(inventory, s)
          /\ log' = Append(log, Call("add_schema", s, "", <<>>, FALSE, NoneV))
    /\ UNCHANGED <<orchVars, pc, summary, ddlcase>>

CallRecordExtraction ==
    /\ pc = "api"
    /\ Len(log) < MaxCalls
    /\ \E s \in ApiSchemas, t \in ApiTypes, n \in ApiNames,
          success \in BOOLEAN, msg \in ApiMessages :
          /\ success => msg = NoneV
          /\ inventory' = record_extraction(inventory, s, t, n, success, msg)
          /\ log' = Append(log, Call("record_extraction", s, t, n, success, msg))
    /\ UNCHANGED <<orchVars, pc, summary, ddlcase>>

\* generate_summary keeping its totals between calls (total_objects and
\* objects_by_type as attributes that are not reset) instead of locals
CallGenerateSummary_accumulating ==
    /\ pc = "api"
    /\ Len(log) < MaxCalls
    /\ LET s == generate_summary(inventory)
       IN  summary' =
              [total_schemas   |-> s.total_schemas,
               total_objects   |-> summary.total_objects + s.total_objects,
               objects_by_type |->
                   [t \in DOMAIN summary.objects_by_type \cup DOMAIN s.objects_by_type |->
                       DictGet(summary.objects_by_type, t) + DictGet(s.objects_by_type, t)]]
    /\ log' = Append(log, Call("generate_summary", <<>>, "", <<>>, FALSE, NoneV))
    /\ UNCHANGED <<orchVars, pc, inventory, ddlcase>>

CallGenerateSummary ==
    /\ pc = "api"
    /\ Len(log) < MaxCalls
    /\ summary' = generate_summary(inventory)
    /\ log' = Append(log, Call("generate_summary", <<>>, "", <<>>, FALSE, NoneV))
    /\ UNCHANGED <<orchVars, pc, inventory, ddlcase>>

\* write_inventory(): the document is serialized
CallWriteInventory ==
    /\ pc = "api"
    /\ Len(log) < MaxCalls
    /\ manifests' = Append(manifests, InventoryDocument(inventory))
    /\ log' = Append(log, Call("write_inventory", <<>>, "", <<>>, FALSE, NoneV))
    /\ UNCHANGED <<schemas, database, si, ti, objects, oi, cur, files, listings, attempts,
                   faults, pc, inventory, summary, ddlcase>>

NextInv ==
    \/ CallAddSchema
    \/ CallRecordExtraction
    \/ CallGenerateSummary
    \/ CallWriteInventory

SpecInv == InitInv /\ [][NextInv]_vars

\* ------------------------------------------------------------------------
\* The cleaner scenario: one of the cleaner's functions is called, once

\* the DDL texts passed (None included)
DdlArgs ==
    { NoneV,
      Some(<<>>),
      Some(<<" ">>),
      Some(<<"a">>),
      Some(<<"b", ";">>),
      Some(<<"a", " ", "L", "O", "G", "G", "I", "N", "G">>),
      Some(<<"a", "\n", "\n", "\n", "\n", "b">>),
      Some(<<"t", " ", "(", "c", ")", " ", "P", "C", "T", "F", "R", "E", "E", " ", "1", "0">>) }

\* further texts passed to clean_ddl alone: doubled terminator, untidy white
\* space, a clause in lower case, a clause right after a parenthesis, a
\* keyword at the head of an identifier, NOLOGGING with LOGGING, a call
\* with an empty argument list, column and key tokens, an empty pair of
\* parentheses between blank lines, a clause between blank lines
CleanArgs ==
    { Some(<<"a", ";", ";">>),
      Some(<<"a", " ", " ", "\n", "\n", "\n", " ", "b", ";">>),
      Some(<<"a", " ", "p", "c", "t", "f", "r", "e", "e", " ", "1", "0", " ", "B">>),
      Some(<<"t", " ", "(", "c", ")", "P", "C", "T", "F", "R", "E", "E", " ", "1", "0">>),
      Some(<<"a", " ", "C", "A", "C", "H", "E", "_", "N", " ", "n">>),
      Some(<<"a", " ", "N", "O", "L", "O", "G", "G", "I", "N", "G", " ", "L", "O", "G", "G", "I", "N", "G">>),
      Some(<<"s", " ", "f", "(", ")", " ", "t">>),
      Some(<<"k", " ", "N", "(", "1", ")", " ", "K", "E", "Y", " ", "p", "(", "i", ")">>),
      Some(<<"a", "\n", "\n", "(", ")", "\n", "\n", "b">>),
      Some(<<"x", "\n", " ", "\n", "\n", " ", "L", "O", "G", "G", "I", "N", "G", "\n", "\n", "\n", "y">>) }

\* the state before the call
InitDdl ==
    /\ schemas = <<>>
    /\ database = {}
    /\ pc = "ddl"
    /\ si = 1
    /\ ti = 1
    /\ objects = <<>>
    /\ oi = 0
    /\ cur = IdleCur
    /\ inventory = EmptyDict
    /\ files = EmptyDict
    /\ manifests = <<>>
    /\ listings = <<>>
    /\ attempts = <<>>
    /\ faults = 0
    /\ log = <<>>
    /\ summary = NoSummary
    /\ ddlcase = IdleDdl

DdlCase(fn, spec, body, out) == [fn |-> fn, spec |-> spec, body |-> body, out |-> out]

CleanDdl ==
    /\ pc = "ddl"
    /\ \E ddl \in DdlArgs \cup CleanArgs :
          ddlcase' = DdlCase("clean_ddl", ddl, NoneV, clean_ddl(ddl))
    /\ pc' = "cleaned"
    /\ UNCHANGED <<orchVars, inventory, log, summary>>

CleanPackageDdl ==
    /\ pc = "ddl"
    /\ \E spec_ddl \in DdlArgs, body_ddl \in DdlArgs :
          ddlcase' = DdlCase("clean_package_ddl", spec_ddl, body_ddl,
                             clean_package_ddl(spec_ddl, body_ddl))
    /\ pc' = "cleaned"
    /\ UNCHANGED <<orchVars, inventory, log, summary>>

CleanTypeDdl ==
    /\ pc = "ddl"
    /\ \E type_ddl \in DdlArgs, body_ddl \in DdlArgs :
          ddlcase' = DdlCase("clean_type_ddl", type_ddl, body_ddl,
                             clean_type_ddl(type_ddl, body_ddl))
    /\ pc' = "cleaned"
    /\ UNCHANGED <<orchVars, inventory, log, summary>>

\* clean_ddl is called on the text the first call of clean_ddl returned;
\* the first call is kept in the log
CleanAgain ==
    /\ pc = "cleaned"
    /\ ddlcase.fn = "clean_ddl"
    /\ ddlcase' = DdlCase("clean_ddl", Some(ddlcase.out), NoneV,
                          clean_ddl(Some(ddlcase.out)))
    /\ log' = Append(log, ddlcase)
    /\ pc' = "recleaned"
    /\ UNCHANGED <<orchVars, inventory, summary>>

NextDdl ==
    \/ CleanDdl
    \/ CleanPackageDdl
    \/ CleanTypeDdl
    \/ CleanAgain

SpecDdl == InitDdl /\ [][NextDdl]_vars

\* ------------------------------------------------------------------------
\* The fetch scenario: extract_ddl is called, once, for a registered type

\* the object types passed to extract_ddl: the keys of OBJECT_TYPES
FetchTypes == {OBJECT_TYPES[i].type : i \in DOMAIN OBJECT_TYPES}

InitFetch ==
    /\ schemas = <<>>
    /\ database = {}
    /\ pc = "fetchcall"
    /\ si = 1
    /\ ti = 1
    /\ objects = <<>>
    /\ oi = 0
    /\ cur = IdleCur
    /\ inventory = EmptyDict
    /\ files = EmptyDict
    /\ manifests = <<>>
    /\ listings = <<>>
    /\ attempts = <<>>
    /\ faults = 0
    /\ log = <<>>
    /\ summary = NoSummary
    /\ ddlcase = IdleDdl

\* extract_ddl(cursor, object_type, object_name, schema): GET_DDL is issued
\* with the mapped type, the cursor answers, and the function returns the
\* DDL or None, or raises
CallExtractDdl ==
    /\ pc = "fetchcall"
    /\ \E t \in FetchTypes, n \in ApiNames, s \in ApiSchemas, out \in DdlOutcomes(RawSpec) :
          LET r == extract_ddl(out)
          IN  /\ cur' = [IdleCur EXCEPT
                            !.req = Request("GET_DDL", MetadataType(t), n),
                            !.out = out,
                            !.ddl = IF r.raised THEN NoneV ELSE r.ret]
              /\ log' = Append(log, Call("extract_ddl", s, t, n, ~r.raised, NoneV))
              /\ pc' = IF r.raised THEN "raised" ELSE "returned"
    /\ UNCHANGED <<schemas, database, si, ti, objects, oi, inventory, files, manifests,
                   listings, attempts, faults, summary, ddlcase>>

\* identifiers outside the registry that a caller may pass
UnregisteredTypes == {"INVALID_TYPE", "table", "PACKAGE BODY", "DB_LINK", ""}

\* the text of the KeyError get_query raises
UnsupportedText == <<"Unsupported object type">>

\* get_schema_objects(cursor, schema, object_type): get_query (which may
\* raise KeyError), then the query is executed with schema.upper() and the
\* cursor answers with the rows or raises
CallGetSchemaObjects ==
    /\ pc = "fetchcall"
    /\ \E t \in FetchTypes \cup UnregisteredTypes, s \in ApiSchemas \cup {<<"h", "r">>} :
          LET q == get_query(t)
          IN  /\ log' = Append(log, Call("get_schema_objects", s, t, <<>>, FALSE, NoneV))
              /\ IF q.raised
                 THEN /\ cur' = [IdleCur EXCEPT !.out = Raise(UnsupportedText)]
                      /\ objects' = <<>>
                      /\ pc' = "raised"
                 ELSE \E db \in Databases, e \in ErrorTexts, raised \in BOOLEAN :
                         /\ cur' = [IdleCur EXCEPT
                                       !.req = Request("LIST", q.query, Upper(s)),
                                       !.out = IF raised THEN Raise(e) ELSE Done]
                         /\ objects' = IF raised THEN <<>> ELSE Rows(db, Upper(s), t)
                         /\ pc' = IF raised THEN "raised" ELSE "returned"
    /\ UNCHANGED <<schemas, database, si, ti, oi, inventory, files, manifests,
                   listings, attempts, faults, summary, ddlcase>>

NextFetch ==
    \/ CallExtractDdl
    \/ CallGetSchemaObjects

SpecFetch == InitFetch /\ [][NextFetch]_vars

\* ------------------------------------------------------------------------
\* Properties

Last(seq) == seq[Len(seq)]

AllTypes == {OBJECT_TYPES[i].type : i \in DOMAIN OBJECT_TYPES}

\* the counters of a type in a schema, 0 where the inventory holds none
Extracted(inv, s, t) ==
    IF s \in DOMAIN inv THEN DictGet(inv[s].objects_extracted, t) ELSE 0

Failed(inv, s, t) ==
    IF s \in DOMAIN inv THEN DictGet(inv[s].objects_failed, t) ELSE 0

Counted(inv, s, t) == Extracted(inv, s, t) + Failed(inv, s, t)

\* the types an inventory holds a counter of
RecordedTypes(inv) ==
    UNION {DOMAIN inv[s].objects_extracted \cup DOMAIN inv[s].objects_failed :
              s \in DOMAIN inv}

\* the sum of f over the finite set S
RECURSIVE SumOver(_, _)
SumOver(S, f) ==
    IF S = {} THEN 0
    ELSE LET x == CHOOSE y \in S : TRUE IN f[x] + SumOver(S \ {x}, f)

\* the records an inventory holds in all
TotalCounted(inv) ==
    SumOver(DOMAIN inv,
            [s \in DOMAIN inv |->
                SumValues(inv[s].objects_extracted) + SumValues(inv[s].objects_failed)])

\* the run stands inside a call of _extract_and_save_object
InObject == pc \in {"fetched", "exists", "checked", "body", "bodied", "write", "written"}

\* a step with which _extract_and_save_object returns to _extract_schema
ObjectReturns == InObject /\ pc' \in {"fetch", "list", "details"}

\* the objects a sequence of listings holds, as attempts, in order
RECURSIVE ListedObjects(_)
ListedObjects(ls) ==
    IF ls = <<>> THEN <<>>
    ELSE LET l == Head(ls)
         IN  [i \in DOMAIN l.rows |->
                 [si |-> l.si, schema |-> l.schema, type |-> l.type, name |-> l.rows[i]]]
             \o ListedObjects(Tail(ls))

\* every type of every configured schema was enumerated, in order
AllEnumerated ==
    /\ Len(listings) = Len(schemas) * Len(OBJECT_TYPES)
    /\ \A k \in DOMAIN listings :
          /\ listings[k].si = ((k - 1) \div Len(OBJECT_TYPES)) + 1
          /\ listings[k].type = OBJECT_TYPES[((k - 1) % Len(OBJECT_TYPES)) + 1].type

\* C1: failure isolation. When the loop over the schemas has ended, every
\* type of every schema has been enumerated and every object that any
\* enumeration listed has been attempted, whatever failed on the way: an
\* object (not found, another error of the metadata source, a write error)
\* or the enumeration of a type.
C1_FailureIsolation ==
    pc \in {"inventory", "done"} =>
        /\ AllEnumerated
        /\ attempts = ListedObjects(listings)

\* C1, its case: a run that ended after the first type's enumeration failed
\* and the first object failed, the second object being of a later schema
C1_Witness ==
    /\ pc = "done"
    /\ Len(attempts) = 2
    /\ listings[1].raised
    /\ Failed(inventory, attempts[1].schema, attempts[1].type) = 1
    /\ attempts[2].si = 2

\* C2: one record per attempt. Every return of _extract_and_save_object adds
\* exactly 1 to the sum of the two counters of the object's schema and type,
\* no other step changes the sum of any schema and type that holds a counter,
\* no counter ever decreases and no schema is ever dropped; so the records
\* made are as many as the attempts completed.
C2_OneRecordPerAttempt ==
    [][ /\ \A s \in DOMAIN inventory : s \in DOMAIN inventory'
        /\ \A s \in DOMAIN inventory',
              t \in RecordedTypes(inventory) \cup RecordedTypes(inventory') \cup {CurType} :
              /\ Extracted(inventory', s, t) >= Extracted(inventory, s, t)
              /\ Failed(inventory', s, t) >= Failed(inventory, s, t)
              /\ Counted(inventory', s, t) =
                    Counted(inventory, s, t)
                    + (IF ObjectReturns /\ s = CurSchema /\ t = CurType THEN 1 ELSE 0)
        /\ TotalCounted(inventory') + (IF InObject' THEN 1 ELSE 0) = Len(attempts')
      ]_vars

\* C2, its case: a run that ended with one object extracted and one failed,
\* both of the same schema and type
C2_Witness ==
    /\ pc = "done"
    /\ Len(attempts) = 2
    /\ \E s \in DOMAIN inventory, t \in AllTypes :
          Extracted(inventory, s, t) = 1 /\ Failed(inventory, s, t) = 1

\* the DDL fetch signalled not-found, or succeeded with an empty or absent
\* payload
NotFoundOrEmpty(out) ==
    \/ out.k = "raise" /\ (Contains(out.text, "ORA-31603") \/ Contains(out.text, "ORA-00942"))
    \/ out.k \in {"norow", "null"}
    \/ out.k \in {"str", "clob"} /\ out.text = <<>>

\* the step after the fetch records a failure with this error text, writes
\* no file and returns to _extract_schema
RecordsFailure(error) ==
    /\ ObjectReturns
    /\ files' = files
    /\ Extracted(inventory', CurSchema, CurType) = Extracted(inventory, CurSchema, CurType)
    /\ Failed(inventory', CurSchema, CurType) = Failed(inventory, CurSchema, CurType) + 1
    /\ inventory'[CurSchema].errors =
          Append(inventory[CurSchema].errors, ErrorEntry(CurType, CurName, error))

\* C3: when the DDL fetch of an object signals not-found (ORA-31603 or
\* ORA-00942 in the error text) or succeeds with an empty or absent payload,
\* the object is recorded as a failure with the reason 'Object not found or
\* no privileges', no file is written and the per-object extraction returns.
C3_NotFoundIsRecorded ==
    [][ (pc = "fetched" /\ NotFoundOrEmpty(cur.out)) => RecordsFailure(NotFoundReason) ]_vars

\* C4: when the DDL fetch raises an error that is not the not-found signal,
\* the object is recorded as a failure whose error entry carries the raw
\* error text, no file is written and the per-object extraction returns.
C4_OtherErrorIsRecorded ==
    [][ (pc = "fetched" /\ cur.out.k = "raise" /\ ~NotFoundOrEmpty(cur.out))
            => RecordsFailure(cur.out.text) ]_vars

\* the objects the enumerations of a schema listed
RECURSIVE ListedIn(_, _)
ListedIn(ls, s) ==
    IF ls = <<>> THEN 0
    ELSE (IF Head(ls).schema = s THEN Len(Head(ls).rows) ELSE 0) + ListedIn(Tail(ls), s)

\* a schema had a partial failure: an enumeration of one of its types failed,
\* or fewer objects were extracted than its enumerations listed
PartialFailure(doc, s) ==
    \/ \E k \in DOMAIN listings : listings[k].schema = s /\ listings[k].raised
    \/ SumValues(doc.schemas[s].objects_extracted) < ListedIn(listings, s)

\* C5: in the manifest of a run, the error list of every schema that had a
\* partial failure is non-empty.
C5_ErrorsSignalPartialFailure ==
    pc = "done" =>
        \A s \in DOMAIN manifests[1].schemas :
            PartialFailure(manifests[1], s) => manifests[1].schemas[s].errors # <<>>

\* the error entries the failed record_extraction calls of a log call for,
\* in call order
RECURSIVE FailuresOf(_, _)
FailuresOf(l, s) ==
    IF l = <<>> THEN <<>>
    ELSE LET c == Head(l)
         IN  (IF c.op = "record_extraction" /\ c.schema = s /\ ~c.success
              THEN <<ErrorEntry(c.type, c.name, c.msg.v)>> ELSE <<>>)
             \o FailuresOf(Tail(l), s)

\* C6: after any sequence of calls, the error list of each schema holds one
\* entry per record_extraction call with success = false, in call order, and
\* is as long as the sum of the schema's objects_failed counters.
C6_OneErrorPerFailure ==
    \A s \in DOMAIN inventory :
        /\ Len(inventory[s].errors) = SumValues(inventory[s].objects_failed)
        /\ inventory[s].errors = FailuresOf(log, s)

\* C7: record_extraction(schema, type, name, success, msg) adds 1 to
\* objects_extracted[type] of the schema if success, to objects_failed[type]
\* of the schema if not, leaves the other of the two as it was, and leaves
\* the counters of every other type and of every other schema as they were.
C7_ExactlyOneCounter ==
    [][ (log' # log /\ Last(log').op = "record_extraction") =>
            LET c == Last(log')
            IN  \A s \in ApiSchemas \cup DOMAIN inventory', t \in AllTypes :
                   /\ Extracted(inventory', s, t) =
                         Extracted(inventory, s, t)
                         + (IF s = c.schema /\ t = c.type /\ c.success THEN 1 ELSE 0)
                   /\ Failed(inventory', s, t) =
                         Failed(inventory, s, t)
                         + (IF s = c.schema /\ t = c.type /\ ~c.success THEN 1 ELSE 0)
      ]_vars

\* C7, its case: a failure was recorded for a type of a schema that already
\* held a success of another type, beside another schema's counters
C7_Witness ==
    /\ Len(log) = 3
    /\ Last(log) = Call("record_extraction", <<"H", "R">>, "TABLE", <<"E">>, FALSE,
                        Some(<<"ORA-01031">>))
    /\ Extracted(inventory, <<"H", "R">>, "PACKAGE") = 1
    /\ Failed(inventory, <<"H", "R">>, "TABLE") = 1
    /\ Failed(inventory, <<"S">>, "TABLE") = 1

\* the schemas a log names, and its successful record_extraction calls
LoggedSchemas(l) ==
    {l[i].schema : i \in {j \in DOMAIN l : l[j].op \in {"add_schema", "record_extraction"}}}

Successes(l, types) ==
    {i \in DOMAIN l : l[i].op = "record_extraction" /\ l[i].success /\ l[i].type \in types}

\* C8: generate_summary, after any sequence of add_schema and
\* record_extraction calls, returns total_schemas = the number of tracked
\* schemas, total_objects = the sum of all objects_extracted counters, and
\* objects_by_type[t] = the sum over the schemas of objects_extracted[t]: the
\* successful calls are counted and the failed ones are not.
C8_SummaryTotals ==
    (log # <<>> /\ Last(log).op = "generate_summary") =>
        /\ summary.total_schemas = Cardinality(DOMAIN inventory)
        /\ summary.total_schemas = Cardinality(LoggedSchemas(log))
        /\ summary.total_objects =
              SumOver((DOMAIN inventory) \X AllTypes,
                      [x \in (DOMAIN inventory) \X AllTypes |->
                          Extracted(inventory, x[1], x[2])])
        /\ summary.total_objects = Cardinality(Successes(log, AllTypes))
        /\ DOMAIN summary.objects_by_type =
              {t \in AllTypes : Successes(log, {t}) # {}}
        /\ \A t \in DOMAIN summary.objects_by_type :
              /\ summary.objects_by_type[t] =
                    SumOver(DOMAIN inventory,
                            [s \in DOMAIN inventory |-> Extracted(inventory, s, t)])
              /\ summary.objects_by_type[t] = Cardinality(Successes(log, {t}))

\* C8, its case: a summary taken after a success and a failure
C8_Witness ==
    /\ Len(log) = 3
    /\ Last(log).op = "generate_summary"
    /\ summary.total_objects = 1
    /\ \E s \in DOMAIN inventory, t \in AllTypes : Failed(inventory, s, t) = 1

\* the request is the GET_DDL of a package body or of a type body
IsBodyFetch(req) == req.op = "GET_DDL" /\ req.type \in {"PACKAGE_BODY", "TYPE_BODY"}

\* C9: the body fetch of a PACKAGE or of a TYPE is issued only right after
\* the body-existence check of the same object returned a positive count;
\* when the check returns zero or no row nothing is fetched, the body is
\* absent and the extraction goes on to write the specification.
C9_BodyFetchAfterPositiveCheck ==
    [][ /\ (IsBodyFetch(cur'.req) /\ cur'.req # cur.req) =>
              /\ cur.req = Request("BODY_EXISTS", cur'.req.type, cur'.req.name)
              /\ cur.out.k = "count"
              /\ cur.out.n > 0
        /\ (pc = "checked" /\ (cur.out.k = "norow" \/ (cur.out.k = "count" /\ cur.out.n = 0))) =>
              /\ pc' = "write"
              /\ cur'.req = cur.req
              /\ cur'.body = NoneV
      ]_vars

\* C9, its case: the body of a type was fetched
C9_Witness ==
    /\ pc = "bodied"
    /\ cur.req = Request("GET_DDL", "TYPE_BODY", <<"E">>)
    /\ cur.out = ClobRow(RawBody)

\* the composite the specification section and the body section make with
\* one empty line between them
OneBlankLineBetween(spec_section, body_section) ==
    spec_section \o <<"\n", "\n">> \o body_section

\* C10: when the specification and the body are both present, the composite
\* DDL is the specification section, one blank line, and the body section
\* (its marker line, then the cleaned body).
C10_OneBlankLine ==
    (Truthy(ddlcase.spec) /\ Truthy(ddlcase.body)) =>
        /\ ddlcase.fn = "clean_package_ddl" =>
              ddlcase.out =
                 OneBlankLineBetween(
                     PackageSpecMarker \o <<"\n">> \o clean_ddl(ddlcase.spec),
                     PackageBodyMarker \o <<"\n">> \o clean_ddl(ddlcase.body))
        /\ ddlcase.fn = "clean_type_ddl" =>
              ddlcase.out =
                 OneBlankLineBetween(
                     clean_ddl(ddlcase.spec),
                     TypeBodyMarker \o <<"\n">> \o clean_ddl(ddlcase.body))

\* the text m occurs in the text t at index p
OccursAt(m, t, p) == p >= 1 /\ p + Len(m) - 1 <= Len(t) /\ SubSeq(t, p, p + Len(m) - 1) = m

\* 'm in t'
Occurs(m, t) == \E p \in 1..Len(t) : OccursAt(m, t, p)

\* the text t ends with the text m
EndsWith(t, m) == OccursAt(m, t, Len(t) - Len(m) + 1)

\* C11: clean_package_ddl. With the specification present and the body
\* absent (None or empty) the result contains the specification marker and no
\* body marker; with only the body present it contains the body marker and no
\* specification marker; with both present it begins with the specification
\* section (marker line, cleaned specification) and ends with the body
\* section (marker line, cleaned body), each marker occurring once, the
\* specification marker first; with both absent the result is empty.
C11_PackageMarkers ==
    ddlcase.fn = "clean_package_ddl" =>
        LET out == ddlcase.out
            spec_section == PackageSpecMarker \o <<"\n">> \o clean_ddl(ddlcase.spec)
            body_section == PackageBodyMarker \o <<"\n">> \o clean_ddl(ddlcase.body)
        IN  /\ (Truthy(ddlcase.spec) /\ ~Truthy(ddlcase.body)) =>
                  Occurs(PackageSpecMarker, out) /\ ~Occurs(PackageBodyMarker, out)
            /\ (~Truthy(ddlcase.spec) /\ Truthy(ddlcase.body)) =>
                  Occurs(PackageBodyMarker, out) /\ ~Occurs(PackageSpecMarker, out)
            /\ (Truthy(ddlcase.spec) /\ Truthy(ddlcase.body)) =>
                  /\ OccursAt(spec_section, out, 1)
                  /\ EndsWith(out, body_section)
                  /\ Len(out) > Len(spec_section) + Len(body_section)
                  /\ \A p \in 1..Len(out) :
                        /\ OccursAt(PackageSpecMarker, out, p) => p = 1
                        /\ OccursAt(PackageBodyMarker, out, p) =>
                              p = Len(out) - Len(body_section) + 1
            /\ (~Truthy(ddlcase.spec) /\ ~Truthy(ddlcase.body)) => out = <<>>

\* C11, its case: a package whose specification and body are both present
C11_Witness ==
    /\ ddlcase.fn = "clean_package_ddl"
    /\ ddlcase.spec = Some(<<"a">>)
    /\ ddlcase.body = Some(<<"b", ";">>)
    /\ Occurs(PackageBodyMarker, ddlcase.out)

\* C12: clean_type_ddl follows the pattern of clean_package_ddl. A present
\* type specification is emitted under a specification section marker: the
\* result begins with a comment line that is not the body marker, and the
\* cleaned specification follows that line. The body marker occurs in the
\* result iff the type body is present.
C12_TypeSpecificationMarker ==
    ddlcase.fn = "clean_type_ddl" =>
        LET out == ddlcase.out
        IN  /\ Truthy(ddlcase.spec) =>
                  /\ OccursAt(<<"-", "-">>, out, 1)
                  /\ ~OccursAt(TypeBodyMarker, out, 1)
                  /\ \E p \in 1..Len(out) :
                        /\ out[p] = "\n"
                        /\ \A q \in 1..(p - 1) : out[q] # "\n"
                        /\ OccursAt(clean_ddl(ddlcase.spec), out, p + 1)
            /\ Occurs(TypeBodyMarker, out) <=> Truthy(ddlcase.body)

\* C13: the manifest is serialized exactly once, at the end of the run.
\* Whatever the objects and the enumerations did, the run never stops short
\* of write_inventory (only directory creation, the connection and the
\* write of the manifest itself can end it); the manifest is written at most
\* once, when every type of the last configured schema has been enumerated
\* and every listed object attempted and recorded, and it holds the
\* inventory as it is then; once it is written the inventory never changes;
\* a run that ends normally has written exactly one manifest.
C13_ManifestOnceAtEnd ==
    /\ [](pc = "done" => Len(manifests) = 1)
    /\ [][/\ pc' = "raised" => pc \in {"mkdirs", "connect", "inventory"}
          /\ Len(manifests') <= 1
          /\ manifests' # manifests =>
                /\ pc = "inventory" /\ pc' = "done"
                /\ si = Len(schemas)
                /\ AllEnumerated
                /\ attempts = ListedObjects(listings)
                /\ TotalCounted(inventory) = Len(attempts)
                /\ manifests' = <<InventoryDocument(inventory)>>
                /\ \A s \in Range(schemas) : s \in DOMAIN inventory
          /\ manifests # <<>> => inventory' = inventory /\ pc' = pc
       ]_vars

\* C13, its case: a run over two schemas has ended and written its manifest
\* although an object failed on the way
C13_Witness ==
    /\ pc = "done"
    /\ Len(schemas) = 2
    /\ Len(manifests) = 1
    /\ \E s \in DOMAIN inventory : inventory[s].errors # <<>>

\* the order in which the claim says the types are taken
RegistrationOrder ==
    <<"TABLE", "VIEW", "MATERIALIZED_VIEW", "PROCEDURE", "FUNCTION", "PACKAGE",
      "TRIGGER", "SEQUENCE", "SYNONYM", "TYPE", "INDEX", "DATABASE LINK">>

\* the sequence s begins with the sequence p
IsPrefix(p, s) == Len(p) <= Len(s) /\ SubSeq(s, 1, Len(p)) = p

\* C14: attempts are strictly sequential and in a fixed order. The
\* enumerations go through the schemas in configured order and, within a
\* schema, through the types in registration order; the attempts are, in
\* order, the objects the enumerations returned; an enumeration starts only
\* when every object listed before it has been attempted and recorded, and
\* an attempt starts only when every earlier attempt has been recorded and
\* it is the attempt of the next listed object.
C14_SequentialFixedOrder ==
    /\ [](/\ \A k \in DOMAIN listings :
                /\ listings[k].si = ((k - 1) \div Len(RegistrationOrder)) + 1
                /\ listings[k].schema = schemas[listings[k].si]
                /\ listings[k].type =
                       RegistrationOrder[((k - 1) % Len(RegistrationOrder)) + 1]
          /\ IsPrefix(attempts, ListedObjects(listings)))
    /\ [][/\ listings' # listings =>
                /\ attempts = ListedObjects(listings)
                /\ TotalCounted(inventory) = Len(attempts)
          /\ attempts' # attempts =>
                /\ TotalCounted(inventory) = Len(attempts)
                /\ attempts' = SubSeq(ListedObjects(listings), 1, Len(attempts) + 1)
       ]_vars

\* C14, its case: a run over two schemas has ended, having attempted an
\* object of the first schema and then an object of another type of the
\* second schema
C14_Witness ==
    /\ pc = "done"
    /\ \E i, j \in DOMAIN attempts :
          /\ i < j
          /\ attempts[i].si < attempts[j].si
          /\ attempts[i].type # attempts[j].type

\* C15: an output failure is isolated. When the write of an object's file
\* raises, the object is recorded as failed with the error text, never as a
\* success, and the run goes on with the next object; when the creation of
\* the output directories raises, the run does not stop either: it goes on
\* and still produces its manifest.
C15_OutputFailureIsolated ==
    [][/\ (pc = "written" /\ cur.out.k = "raise") =>
             /\ ObjectReturns
             /\ Extracted(inventory', CurSchema, CurType)
                    = Extracted(inventory, CurSchema, CurType)
             /\ Failed(inventory', CurSchema, CurType)
                    = Failed(inventory, CurSchema, CurType) + 1
             /\ inventory'[CurSchema].errors =
                    Append(inventory[CurSchema].errors,
                           ErrorEntry(CurType, CurName, cur.out.text))
       /\ pc = "mkdirs" => pc' # "raised"
    ]_vars

\* the files the sink holds under the directory of a schema
FilesUnder(schema) == {p \in DOMAIN files : p[1] = Lower(schema)}

\* the path of the file of an attempt
PathOf(a) ==
    FilePath(a.schema, CHOOSE c \in Range(OBJECT_TYPES) : c.type = a.type, a.name)

\* the attempt attempts[i] has been recorded, and as a success: no object of
\* its schema and type has been recorded as failed
RecordedSuccess(i) ==
    /\ i <= TotalCounted(inventory)
    /\ Failed(inventory, attempts[i].schema, attempts[i].type) = 0

\* C16: one file per successfully extracted object. Two distinct
\* successfully recorded objects never share a path, and when the run has
\* ended the number of files the sink holds under a schema's directory is
\* that schema's total_files.
C16_OneFilePerObject ==
    /\ \A i, j \in DOMAIN attempts :
          (/\ RecordedSuccess(i) /\ RecordedSuccess(j)
           /\ <<attempts[i].schema, attempts[i].type, attempts[i].name>>
                 # <<attempts[j].schema, attempts[j].type, attempts[j].name>>)
          => PathOf(attempts[i]) # PathOf(attempts[j])
    /\ pc = "done" =>
          \A s \in DOMAIN inventory :
              Cardinality(FilesUnder(s)) = inventory[s].total_files

\* C17: every schema on which add_schema or record_extraction was called,
\* also one with no successful extraction, is a key of 'schemas' in the
\* manifest write_inventory serializes and is counted in its
\* summary.total_schemas.
C17_TrackedSchemasInManifest ==
    (log # <<>> /\ Last(log).op = "write_inventory") =>
        LET doc == Last(manifests)
        IN  /\ DOMAIN doc.schemas = LoggedSchemas(log)
            /\ doc.summary.total_schemas = Cardinality(LoggedSchemas(log))

\* C17, its case: a manifest written after add_schema on one schema and a
\* failed record_extraction on another, neither with a success
C17_Witness ==
    /\ log # <<>> /\ Last(log).op = "write_inventory"
    /\ Cardinality(LoggedSchemas(log)) = 2
    /\ \A s \in DOMAIN Last(manifests).schemas : Last(manifests).schemas[s].total_files = 0
    /\ \E i \in DOMAIN log : log[i].op = "record_extraction"

\* C18: the inventory only grows. With every call no tracked schema is
\* dropped, no counter of extracted or failed objects and no total_files
\* decreases, and the error list keeps every entry it had, unchanged and in
\* place; add_schema on a schema already tracked leaves that schema's
\* counters, total_files and errors as they were.
C18_InventoryAdditive ==
    [][/\ \A s \in DOMAIN inventory :
             /\ s \in DOMAIN inventory'
             /\ inventory'[s].total_files >= inventory[s].total_files
             /\ IsPrefix(inventory[s].errors, inventory'[s].errors)
             /\ \A t \in DOMAIN inventory[s].objects_extracted :
                   Extracted(inventory', s, t) >= Extracted(inventory, s, t)
             /\ \A t \in DOMAIN inventory[s].objects_failed :
                   Failed(inventory', s, t) >= Failed(inventory, s, t)
       /\ (/\ log' # log
           /\ Last(log').op = "add_schema"
           /\ Last(log').schema \in DOMAIN inventory) =>
                LET s == Last(log').schema
                IN  /\ inventory'[s].objects_extracted = inventory[s].objects_extracted
                    /\ inventory'[s].objects_failed = inventory[s].objects_failed
                    /\ inventory'[s].total_files = inventory[s].total_files
                    /\ inventory'[s].errors = inventory[s].errors
    ]_vars

\* C18, its case: add_schema was called on a schema that held a success and
\* an error entry
C18_Witness ==
    /\ Len(log) = 3
    /\ Last(log).op = "add_schema"
    /\ log[1].op = "record_extraction" /\ log[2].op = "record_extraction"
    /\ inventory[Last(log).schema].errors # <<>>
    /\ inventory[Last(log).schema].total_files = 1

\* C19: generate_summary is side-effect-free and idempotent. A call leaves
\* the whole inventory (schemas, counters, total_files, errors) as it was,
\* and a call that directly follows another call, with no mutation between
\* them, returns what that call returned.
C19_SummaryPure ==
    [][(log' # log /\ Last(log').op = "generate_summary") =>
          /\ inventory' = inventory
          /\ (log # <<>> /\ Last(log).op = "generate_summary") => summary' = summary
    ]_vars

\* C19, its case: two calls of generate_summary in a row on an inventory
\* that holds a success
C19_Witness ==
    /\ Len(log) = 3
    /\ log[1].op = "record_extraction" /\ log[1].success
    /\ log[2].op = "generate_summary"
    /\ log[3].op = "generate_summary"
    /\ summary.total_objects = 1

\* the two types the mapping of extract_ddl names
SpecialCasedTypes == {"MATERIALIZED_VIEW", "DATABASE LINK"}

\* C20, as stated: of the twelve registered types the two the mapping names
\* are sent to the metadata source under another identifier, and the other
\* ten under their own.
C20_TwoTypesRenamed ==
    (log # <<>> /\ Last(log).op = "extract_ddl") =>
        LET t == Last(log).type
        IN  /\ t \in SpecialCasedTypes => cur.req.type # t
            /\ t \notin SpecialCasedTypes => cur.req.type = t

\* C20, amended: of the twelve registered types exactly one is renamed:
\* DATABASE LINK is sent to the metadata source as DB_LINK; the other
\* eleven, MATERIALIZED_VIEW among them, are sent under their own identifier.
C20_OneTypeRenamed ==
    (log # <<>> /\ Last(log).op = "extract_ddl") =>
        LET t == Last(log).type
        IN  /\ t = "DATABASE LINK" => cur.req.type = "DB_LINK"
            /\ t # "DATABASE LINK" => cur.req.type = t

\* C20, its case: extract_ddl was called for a database link
C20_Witness ==
    /\ pc = "returned"
    /\ Last(log).op = "extract_ddl"
    /\ Last(log).type = "DATABASE LINK"
    /\ cur.req.op = "GET_DDL"
    /\ cur.req.type = "DB_LINK"

\* C21: the registry is a closed set of exactly twelve types. A listing
\* asked for a key of OBJECT_TYPES issues one enumeration query, the query
\* of that type and of no other type; a listing asked for any other
\* identifier raises the unsupported-type KeyError and issues no query.
C21_RegistryClosed ==
    /\ Cardinality(AllTypes) = 12
    /\ (log # <<>> /\ Last(log).op = "get_schema_objects") =>
          LET t == Last(log).type
          IN  /\ t \in AllTypes =>
                    /\ cur.req.op = "LIST"
                    /\ cur.out # Raise(UnsupportedText)
                    /\ \A u \in AllTypes :
                          (get_query(u).query = cur.req.type) <=> (u = t)
              /\ t \notin AllTypes =>
                    /\ pc = "raised"
                    /\ cur.out = Raise(UnsupportedText)
                    /\ cur.req = NoRequest

\* C21, its case: a listing was asked for the lower-case name of a
\* registered type
C21_Witness ==
    /\ log # <<>> /\ Last(log).op = "get_schema_objects"
    /\ Last(log).type = "table"
    /\ pc = "raised"
    /\ cur.out = Raise(UnsupportedText)

\* the last call was clean_ddl on a text (not None)
CleanedText == ddlcase.fn = "clean_ddl" /\ ddlcase.spec.some

\* a text holding nothing but white space
IsBlank(t) == \A i \in DOMAIN t : t[i] \in WhiteSpace

\* C22: clean_ddl returns the empty string for an absent or empty input
\* (an input of white space alone is taken as empty here), and for every
\* other input a text that ends with one statement terminator and not with
\* two.
C22_OneTerminator ==
    ddlcase.fn = "clean_ddl" =>
        LET out == ddlcase.out
        IN  IF ~ddlcase.spec.some \/ IsBlank(ddlcase.spec.v)
            THEN out = <<>>
            ELSE /\ EndsWith(out, <<";">>)
                 /\ ~EndsWith(out, <<";", ";">>)

\* the steps of clean_ddl that remove what they match
RemovalSteps == SelectSeq(CleanSteps, LAMBDA s : s.repl = <<>>)

\* no removal step matches in t: applied in turn they leave t as it is (a
\* step that matches shortens the text)
NoRemovableClause(t) == ApplySteps(RemovalSteps, 1, t) = t

\* a text as C23 takes it: not empty, ending in one terminator, holding
\* nothing a removal rule matches
AlreadyTerminated(t) ==
    /\ EndsWith(t, <<";">>)
    /\ ~EndsWith(t, <<";", ";">>)
    /\ NoRemovableClause(t)

VendorKeywords ==
    { <<"P", "C", "T", "F", "R", "E", "E">>,
      <<"P", "C", "T", "U", "S", "E", "D">>,
      <<"I", "N", "I", "T", "R", "A", "N", "S">>,
      <<"M", "A", "X", "T", "R", "A", "N", "S">>,
      <<"C", "O", "M", "P", "R", "E", "S", "S">>,
      <<"L", "O", "G", "G", "I", "N", "G">>,
      <<"C", "A", "C", "H", "E">>,
      <<"P", "A", "R", "A", "L", "L", "E", "L">>,
      <<"M", "O", "N", "I", "T", "O", "R", "I", "N", "G">>,
      <<"S", "E", "G", "M", "E", "N", "T", " ", "C", "R", "E", "A", "T", "I", "O", "N">>,
      <<"F", "L", "A", "S", "H", "_", "C", "A", "C", "H", "E">>,
      <<"R", "O", "W", " ", "M", "O", "V", "E", "M", "E", "N", "T">>,
      <<"T", "A", "B", "L", "E", "S", "P", "A", "C", "E">>,
      <<"S", "T", "O", "R", "A", "G", "E">> }

\* the text t holds the keyword kw, in any letter case
HoldsKeyword(kw, t) == Occurs(kw, Upper(t))

\* the tokens of a text: its maximal runs of characters that are not white
\* space, in order
RECURSIVE Tokens(_)
Tokens(t) ==
    IF t = <<>> THEN <<>>
    ELSE IF Head(t) \in WhiteSpace THEN Tokens(Tail(t))
    ELSE LET n == IF \E i \in DOMAIN t : t[i] \in WhiteSpace
                  THEN (CHOOSE i \in DOMAIN t :
                           /\ t[i] \in WhiteSpace
                           /\ \A j \in 1..(i - 1) : t[j] \notin WhiteSpace) - 1
                  ELSE Len(t)
         IN  <<SubSeq(t, 1, n)>> \o Tokens(SubSeq(t, n + 1, Len(t)))

\* the input with the terminator clean_ddl adds when it is missing
Terminated(t) ==
    IF IsBlank(t) \/ EndsWith(Strip(t), <<";">>) THEN t ELSE Strip(t) \o <<";">>

\* C24: tokens that no rule targets pass through clean_ddl unmodified in
\* content and in order. For an input that holds no keyword of a targeted
\* vendor clause there is nothing to take away: the token sequence of the
\* output is the token sequence of the input (with its terminator).
C24_TokensPassThrough ==
    (/\ ddlcase.fn = "clean_ddl"
     /\ ddlcase.spec.some
     /\ \A kw \in VendorKeywords : ~HoldsKeyword(kw, ddlcase.spec.v)) =>
        Tokens(ddlcase.out) = Tokens(Terminated(ddlcase.spec.v))

\* the keywords of the targeted clauses with their NO forms
ClauseKeywords ==
    VendorKeywords \cup
    { <<"N", "O", "C", "O", "M", "P", "R", "E", "S", "S">>,
      <<"N", "O", "L", "O", "G", "G", "I", "N", "G">>,
      <<"N", "O", "C", "A", "C", "H", "E">>,
      <<"N", "O", "P", "A", "R", "A", "L", "L", "E", "L">>,
      <<"N", "O", "M", "O", "N", "I", "T", "O", "R", "I", "N", "G">> }

\* the keyword kw stands in t as a word of its own, in any letter case: the
\* characters around it are not word characters
HoldsClause(kw, t) ==
    \E p \in 1..Len(t) :
        /\ OccursAt(kw, Upper(t), p)
        /\ p > 1 => t[p - 1] \notin WordChars
        /\ p + Len(kw) <= Len(t) => t[p + Len(kw)] \notin WordChars

\* C25: for every input that holds a targeted vendor clause, in any letter
\* case and wherever it stands, the output of clean_ddl does not hold that
\* clause's keyword.
C25_VendorKeywordsRemoved ==
    (ddlcase.fn = "clean_ddl" /\ ddlcase.spec.some) =>
        \A kw \in ClauseKeywords :
            HoldsClause(kw, ddlcase.spec.v) => ~HoldsKeyword(kw, ddlcase.out)

\* the line breaks of t and the characters that are not white space: a line
\* of white space alone counts as a blank line
LineShape(t) == SelectSeq(t, LAMBDA c : c = "\n" \/ c \notin WhiteSpace)

\* C26: the output of clean_ddl never has more than one blank line in a row,
\* runs of blank lines that the removals themselves leave behind included.
C26_OneBlankLineAtMost ==
    CleanedText => ~Occurs(<<"\n", "\n", "\n">>, LineShape(ddlcase.out))

\* the keywords of the rules that take a bare keyword away, with or without
\* NO before it
BareKeywords ==
    { <<"C", "O", "M", "P", "R", "E", "S", "S">>,
      <<"L", "O", "G", "G", "I", "N", "G">>,
      <<"C", "A", "C", "H", "E">>,
      <<"P", "A", "R", "A", "L", "L", "E", "L">>,
      <<"M", "O", "N", "I", "T", "O", "R", "I", "N", "G">> }

\* a longer word: a word that holds a bare keyword and is more than the
\* keyword and more than its NO form
IsLongerWord(w) ==
    /\ w # <<>>
    /\ \A i \in DOMAIN w : w[i] \in WordChars
    /\ Upper(w) \notin ClauseKeywords
    /\ \E kw \in BareKeywords : Occurs(kw, Upper(w))

\* C27: no keyword rule matches a part of a longer word: every longer word
\* of the input stands whole in the output of clean_ddl; and an input that
\* holds both NOLOGGING and LOGGING has both taken away whole, no NO left
\* behind.
C27_NoPartialWordMatch ==
    CleanedText =>
        LET in == ddlcase.spec.v
            words == Tokens(in)
        IN  /\ \A i \in DOMAIN words :
                  IsLongerWord(words[i]) => Occurs(words[i], ddlcase.out)
            /\ (/\ HoldsClause(<<"N", "O", "L", "O", "G", "G", "I", "N", "G">>, in)
                /\ HoldsClause(<<"L", "O", "G", "G", "I", "N", "G">>, in)) =>
                  /\ ~HoldsKeyword(<<"L", "O", "G", "G", "I", "N", "G">>, ddlcase.out)
                  /\ ~HoldsClause(<<"N", "O">>, ddlcase.out)

\* the body fetch of the current PACKAGE or TYPE raised
BodyFetchRaised ==
    /\ HasBody(CurType)
    /\ cur.req = Request("GET_DDL", BodyKind(CurType), CurName)
    /\ cur.out.k = "raise"

\* the existence check of the body of the current PACKAGE or TYPE raised
ExistenceCheckRaised ==
    /\ pc = "checked"
    /\ cur.req = Request("BODY_EXISTS", BodyKind(CurType), CurName)
    /\ cur.out.k = "raise"

\* the error entries of a schema, none where the inventory holds no such
\* schema
ErrorsOf(inv, s) == IF s \in DOMAIN inv THEN inv[s].errors ELSE <<>>

\* C28: for a PACKAGE or a TYPE whose specification was fetched, an error
\* that the body fetch raises after a positive existence check produces no
\* failure record: the extraction goes on with no body, the file written
\* holds the specification section alone, and the write is recorded as a
\* success with no error entry. An error that the existence check itself
\* raises is recorded as a failure and no file is written.
C28_BodyFetchErrorSwallowed ==
    [][/\ (pc = "bodied" /\ BodyFetchRaised) =>
              /\ pc' = "write"
              /\ cur'.body = NoneV
              /\ cur'.ddl = cur.ddl
              /\ UNCHANGED <<inventory, files>>
       /\ (pc = "write" /\ BodyFetchRaised /\ cur'.out.k = "ok") =>
              /\ pc' = "written"
              /\ files'[FilePath(CurSchema, CurConfig, CurName)] =
                     CleanFor(CurType, cur.ddl, NoneV)
              /\ UNCHANGED inventory
       /\ (pc = "written" /\ cur.out.k = "ok") =>
              /\ Extracted(inventory', CurSchema, CurType) =
                     Extracted(inventory, CurSchema, CurType) + 1
              /\ Failed(inventory', CurSchema, CurType) =
                     Failed(inventory, CurSchema, CurType)
              /\ ErrorsOf(inventory', CurSchema) = ErrorsOf(inventory, CurSchema)
       /\ ExistenceCheckRaised =>
              /\ Failed(inventory', CurSchema, CurType) =
                     Failed(inventory, CurSchema, CurType) + 1
              /\ Extracted(inventory', CurSchema, CurType) =
                     Extracted(inventory, CurSchema, CurType)
              /\ UNCHANGED files
              /\ pc' \notin {"body", "write"}]_vars

\* the body fetch raised after the specification was fetched, and the
\* extraction stands before the write with no body and no failure recorded
C28_Witness ==
    /\ pc = "write"
    /\ BodyFetchRaised
    /\ cur.body = NoneV
    /\ Truthy(cur.ddl)
    /\ Counted(inventory, CurSchema, CurType) = 0

\* the Extraction Records of a schema: the sum of all its counters
RecordsOf(inv, s) ==
    IF s \in DOMAIN inv
    THEN SumValues(inv[s].objects_extracted) + SumValues(inv[s].objects_failed)
    ELSE 0

\* the objects the metadata source listed for a schema in the enumerations
\* that succeeded
RECURSIVE ListedFor(_, _)
ListedFor(ls, s) ==
    IF ls = <<>> THEN 0
    ELSE (IF Head(ls).schema = s /\ ~Head(ls).raised THEN Len(Head(ls).rows) ELSE 0)
         + ListedFor(Tail(ls), s)

\* the schemas of the run
ConfiguredSchemas == {schemas[i] : i \in DOMAIN schemas}

TotalFiles(inv, s) == IF s \in DOMAIN inv THEN inv[s].total_files ELSE 0

\* C30: after any sequence of Inventory operations, total_files of every
\* schema is the sum of its objects_extracted counters; the total_objects
\* that generate_summary returns is the sum of total_files over all schemas;
\* and a failed extraction leaves total_files of every schema as it was.
C30_TotalFilesConsistent ==
    [][/\ \A s \in DOMAIN inventory' :
             inventory'[s].total_files = SumValues(inventory'[s].objects_extracted)
       /\ (log' # log /\ Last(log').op = "generate_summary") =>
             summary'.total_objects =
                 SumOver(DOMAIN inventory',
                         [s \in DOMAIN inventory' |-> inventory'[s].total_files])
       /\ (log' # log /\ Last(log').op = "record_extraction" /\ ~Last(log').success) =>
             \A s \in ApiSchemas : TotalFiles(inventory', s) = TotalFiles(inventory, s)
    ]_vars

\* C30, its case: a summary taken after a success and then a failure were
\* recorded in one schema counts the one file
C30_Witness ==
    /\ Len(log) = 3
    /\ log[1].op = "record_extraction" /\ log[1].success
    /\ log[2].op = "record_extraction" /\ ~log[2].success
    /\ log[2].schema = log[1].schema
    /\ log[3].op = "generate_summary"
    /\ TotalFiles(inventory, log[1].schema) = 1
    /\ summary.total_objects = 1

====
